---------------------------- MODULE Spec2Model ----------------------------
(***************************************************************************)
(* Model of the quad_decoder geometry kernel (src/src/lib.rs): Vertex and  *)
(* Circle algebra over I16F16, Vertex::abs over I32F32, the exponential    *)
(* filter Circle::exp_filt and circle_from_three_vertex over I64F0.        *)
(*                                                                         *)
(* Fixed-point numbers are modelled by their bits (to_bits): an I16F16 of  *)
(* value v is the integer v * 2^16.  The I32F32 and I64F0 intermediates    *)
(* need 64 bits and their products 128, which is more than the model       *)
(* checker's machine integers hold, so every fixed-point operation is      *)
(* computed on arbitrary-precision integers (records [neg, mag], mag the   *)
(* little-endian base-256 digits) and then reduced to the type's width,    *)
(* the way the fixed crate does it on the integer that holds the bits.     *)
(***************************************************************************)
EXTENDS Integers, Sequences, FiniteSets, TLC

(***************************************************************************)
(* Arbitrary-precision integers.  Every operator evaluates each of its     *)
(* arguments once: it binds the argument's value (x \in {argument}) before *)
(* it uses it, and The takes the one result out of the set built that way. *)
(***************************************************************************)
The(S) == CHOOSE x \in S : TRUE

\* without its leading zero digits (the last ones of the sequence)
MagNorm(m) ==
    The({The({IF nz = {} THEN <<>>
              ELSE SubSeq(x, 1, CHOOSE i \in nz : \A j \in nz : j <= i) :
                 nz \in {{i \in 1..Len(x) : x[i] # 0}}}) :
            x \in {m}})

\* -1, 0, 1 as a < b, a = b, a > b, for normalised a and b
MagCmp(a, b) ==
    The({IF Len(x) < Len(y) THEN -1
         ELSE IF Len(x) > Len(y) THEN 1
         ELSE LET d == {i \in 1..Len(x) : x[i] # y[i]}
              IN  IF d = {} THEN 0
                  ELSE The({IF x[i] < y[i] THEN -1 ELSE 1 :
                               i \in {CHOOSE i \in d : \A j \in d : j <= i}}) :
            x \in {a}, y \in {b}})

MagDigit(m, i) == IF i <= Len(m) THEN m[i] ELSE 0

MagMaxLen(a, b) == IF Len(a) < Len(b) THEN Len(b) ELSE Len(a)

\* the carry into digit i of a + b: some digit below overflows and every digit
\* between passes the carry on
MagCarry(a, b, i) ==
    IF \E j \in 1..(i - 1) :
          /\ MagDigit(a, j) + MagDigit(b, j) > 255
          /\ \A k \in (j + 1)..(i - 1) : MagDigit(a, k) + MagDigit(b, k) = 255
    THEN 1 ELSE 0

MagAdd(a, b) ==
    MagNorm(The({[i \in 1..(MagMaxLen(x, y) + 1) |->
                    (MagDigit(x, i) + MagDigit(y, i) + MagCarry(x, y, i)) % 256] :
                    x \in {a}, y \in {b}}))

\* the borrow from digit i of a - b
MagBorrow(a, b, i) ==
    IF \E j \in 1..(i - 1) :
          /\ MagDigit(a, j) < MagDigit(b, j)
          /\ \A k \in (j + 1)..(i - 1) : MagDigit(a, k) = MagDigit(b, k)
    THEN 1 ELSE 0

\* a - b for a >= b
MagSub(a, b) ==
    MagNorm(The({[i \in 1..Len(x) |->
                    (x[i] - MagDigit(y, i) - MagBorrow(x, y, i)) % 256] :
                    x \in {a}, y \in {b}}))

\* a * 256^k
MagShl(a, k) == [i \in 1..k |-> 0] \o a

\* a \div 256^k
MagShr(a, k) == The({IF Len(x) <= k THEN <<>> ELSE SubSeq(x, k + 1, Len(x)) : x \in {a}})

\* a % 256^k
MagLow(a, k) == MagNorm(The({IF Len(x) <= k THEN x ELSE SubSeq(x, 1, k) : x \in {a}}))

\* the sum of a[i] * b[k + 1 - i] over i: column k of the long multiplication
RECURSIVE MagColumn(_, _, _, _)
MagColumn(a, b, k, i) ==
    IF i > Len(a) THEN 0
    ELSE (IF k + 1 - i \in 1..Len(b) THEN a[i] * b[k + 1 - i] ELSE 0)
         + MagColumn(a, b, k, i + 1)

\* the columns (each below 2^24 for operands of up to 256 digits) split into
\* three digits and added up
MagMul(a, b) ==
    The({MagAdd(MagAdd([k \in DOMAIN col |-> col[k] % 256],
                       MagShl([k \in DOMAIN col |-> (col[k] \div 256) % 256], 1)),
                MagShl([k \in DOMAIN col |-> col[k] \div 65536], 2)) :
            col \in {The({[k \in 1..(Len(x) + Len(y)) |-> MagColumn(x, y, k, 1)] :
                             x \in {a}, y \in {b}})}})

RECURSIVE MagToNat(_)
MagToNat(m) == IF m = <<>> THEN 0 ELSE m[1] + 256 * MagToNat(Tail(m))

\* the largest q in lo..hi with b * q <= r (b * lo <= r is given)
RECURSIVE MagQuotDigit(_, _, _, _)
MagQuotDigit(r, b, lo, hi) ==
    IF lo >= hi THEN lo
    ELSE The({IF MagCmp(MagMul(b, <<mid>>), r) <= 0
              THEN MagQuotDigit(r, b, mid, hi)
              ELSE MagQuotDigit(r, b, lo, mid - 1) :
                 mid \in {(lo + hi + 1) \div 2}})

\* r \div b for r < 256 * b, b # 0.  With bt and rt what b and r are above
\* their lowest Len(b) - 2 digits, rt \div (bt + 1) <= r \div b <= rt \div bt,
\* and the digit is searched between the two.
MagQuot(r, b) ==
    The({MagQuotDigit(r, b,
                      IF Len(b) <= 2 THEN rt \div bt ELSE rt \div (bt + 1),
                      IF rt \div bt > 255 THEN 255 ELSE rt \div bt) :
            bt \in {MagToNat(MagShr(b, IF Len(b) <= 2 THEN 0 ELSE Len(b) - 2))},
            rt \in {MagToNat(MagShr(r, IF Len(b) <= 2 THEN 0 ELSE Len(b) - 2))}})

\* one step of the long division: the next digit d brought down to the
\* remainder so far; <<digit of the quotient, new remainder>>
MagDivStep(rem, d, b) ==
    The({The({<<q, MagSub(r, MagMul(b, <<q>>))>> : q \in {MagQuot(r, b)}}) :
            r \in {MagNorm(<<d>> \o rem)}})

\* long division of the digits a[i..Len(a)], most significant first:
\* <<quotient, remainder>>
RECURSIVE MagDivModAt(_, _, _)
MagDivModAt(a, b, i) ==
    IF i > Len(a) THEN <<<<>>, <<>>>>
    ELSE The({The({<<<<step[1]>> \o upper[1], step[2]>> :
                      step \in {MagDivStep(upper[2], a[i], b)}}) :
                 upper \in {MagDivModAt(a, b, i + 1)}})

\* <<a \div b, a % b>> for b # 0
MagDivMod(a, b) ==
    The({<<MagNorm(qr[1]), qr[2]>> :
            qr \in {The({MagDivModAt(x, y, 1) : x \in {a}, y \in {b}})}})

\* a \div 2
MagHalf(a) ==
    MagNorm(The({[i \in 1..Len(x) |-> (x[i] \div 2) + 128 * (MagDigit(x, i + 1) % 2)] :
                    x \in {a}}))

RECURSIVE MagFromNat(_)
MagFromNat(n) == IF n = 0 THEN <<>> ELSE <<n % 256>> \o MagFromNat(n \div 256)

\* the integer of sign neg and magnitude mag (zero is not negative)
Z(neg, mag) == The({[neg |-> neg /\ m # <<>>, mag |-> m] : m \in {mag}})

ZZero == [neg |-> FALSE, mag |-> <<>>]
ZOne == [neg |-> FALSE, mag |-> <<1>>]

\* from a machine integer of the model checker
ZFromInt(n) ==
    IF n >= 0 THEN Z(FALSE, MagFromNat(n))
    ELSE Z(TRUE, MagAdd(MagFromNat(-(n + 1)), <<1>>))

\* to a machine integer; the value must lie in -2^31 .. 2^31 - 1
ZToInt(a) ==
    The({IF ~x.neg THEN MagToNat(x.mag) ELSE -MagToNat(MagSub(x.mag, <<1>>)) - 1 :
            x \in {a}})

ZNeg(a) == The({Z(~x.neg, x.mag) : x \in {a}})

ZAdd(a, b) ==
    The({IF x.neg = y.neg THEN Z(x.neg, MagAdd(x.mag, y.mag))
         ELSE IF MagCmp(x.mag, y.mag) >= 0 THEN Z(x.neg, MagSub(x.mag, y.mag))
         ELSE Z(y.neg, MagSub(y.mag, x.mag)) :
            x \in {a}, y \in {b}})

ZSub(a, b) == ZAdd(a, ZNeg(b))

ZMul(a, b) == The({Z(x.neg # y.neg, MagMul(x.mag, y.mag)) : x \in {a}, y \in {b}})

ZCmp(a, b) ==
    The({IF x.neg /\ ~y.neg THEN -1
         ELSE IF ~x.neg /\ y.neg THEN 1
         ELSE IF x.neg THEN MagCmp(y.mag, x.mag)
         ELSE MagCmp(x.mag, y.mag) :
            x \in {a}, y \in {b}})

ZLe(a, b) == ZCmp(a, b) <= 0
ZLt(a, b) == ZCmp(a, b) < 0

\* quotient rounded towards zero (the integer division of the machine), b # 0
ZDivTrunc(a, b) ==
    The({Z(x.neg # y.neg, MagDivMod(x.mag, y.mag)[1]) : x \in {a}, y \in {b}})

\* 2^(8k)
ZPow256(k) == [neg |-> FALSE, mag |-> [i \in 1..k |-> 0] \o <<1>>]

\* floor(a / 2^(8k)): the arithmetic shift right by 8k bits
ZShrFloor(a, k) ==
    The({IF ~x.neg \/ MagLow(x.mag, k) = <<>> THEN Z(x.neg, MagShr(x.mag, k))
         ELSE Z(TRUE, MagAdd(MagShr(x.mag, k), <<1>>)) :
            x \in {a}})

\* floor(a / 2): the arithmetic shift right by one bit
ZHalfFloor(a) ==
    The({IF ~x.neg \/ x.mag[1] % 2 = 0 THEN Z(x.neg, MagHalf(x.mag))
         ELSE Z(TRUE, MagAdd(MagHalf(x.mag), <<1>>)) :
            x \in {a}})

\* whether a is a two's complement number of 8k bits: -2^(8k-1) <= a < 2^(8k-1)
ZFits(a, k) ==
    The({\/ Len(x.mag) < k
         \/ Len(x.mag) = k /\ x.mag[k] < 128
         \/ x.neg /\ x.mag = [i \in 1..k |-> IF i = k THEN 128 ELSE 0] :
            x \in {a}})

\* the two's complement reading of the low 8k bits of a
ZWrap(a, k) ==
    The({IF ZFits(x, k) THEN x
         ELSE The({IF Len(u) = k /\ u[k] >= 128
                   THEN Z(TRUE, MagSub(MagShl(<<1>>, k), u))
                   ELSE Z(FALSE, u) :
                      u \in {The({IF x.neg /\ low # <<>>
                                  THEN MagSub(MagShl(<<1>>, k), low) ELSE low :
                                     low \in {MagLow(x.mag, k)}})}}) :
            x \in {a}})

(***************************************************************************)
(* Fixed-point numbers of the fixed crate.  A number is its bits v (an     *)
(* integer, already reduced to the type's width) with two sticky marks of  *)
(* what its computation met on the way: o, a result that did not fit the   *)
(* type (the operation panics when the build has overflow checks and debug *)
(* assertions, and returns the wrapped bits otherwise), and z, a division  *)
(* by zero (which panics in every build).  A type is given by its width    *)
(* and its fractional part in bytes: I16F16 is (4, 2), I32F32 is (8, 4),   *)
(* I64F0 is (8, 0).                                                        *)
(***************************************************************************)
Fx(v) == [v |-> v, o |-> FALSE, z |-> FALSE]

\* the bits of `exact' reduced to `bytes' bytes, marked by the marks of the
\* operands a and b
FxReduce(bytes, exact, a, b) ==
    The({[v |-> ZWrap(e, bytes), o |-> a.o \/ b.o \/ ~ZFits(e, bytes), z |-> a.z \/ b.z] :
            e \in {exact}})

\* a with the marks of b added
FxJoin(a, b) == The({[v |-> x.v, o |-> x.o \/ y.o, z |-> x.z \/ y.z] : x \in {a}, y \in {b}})

FxAdd(bytes, a, b) == The({FxReduce(bytes, ZAdd(x.v, y.v), x, y) : x \in {a}, y \in {b}})
FxSub(bytes, a, b) == The({FxReduce(bytes, ZSub(x.v, y.v), x, y) : x \in {a}, y \in {b}})
FxNeg(bytes, a) == The({FxReduce(bytes, ZNeg(x.v), x, x) : x \in {a}})

\* FxMul rounding up instead of down
FxMul_up(bytes, frac, a, b) ==
    The({FxReduce(bytes, ZNeg(ZShrFloor(ZNeg(ZMul(x.v, y.v)), frac)), x, y) :
            x \in {a}, y \in {b}})

\* the product of the bits shifted right by the fractional bits (rounds down)
FxMul(bytes, frac, a, b) ==
    The({FxReduce(bytes, ZShrFloor(ZMul(x.v, y.v), frac), x, y) : x \in {a}, y \in {b}})

\* an integer times a fixed-point number: the bits times the integer
FxMulInt(bytes, n, a) == The({FxReduce(bytes, ZMul(ZFromInt(n), x.v), x, x) : x \in {a}})

\* the bits of the dividend shifted left by the fractional bits, divided as
\* machine integers (rounds towards zero)
FxDiv(bytes, frac, a, b) ==
    The({IF y.v = ZZero THEN [v |-> ZZero, o |-> x.o \/ y.o, z |-> TRUE]
         ELSE FxReduce(bytes, ZDivTrunc(ZMul(x.v, ZPow256(frac)), y.v), x, y) :
            x \in {a}, y \in {b}})

\* bits << 1: the bit shifted out is lost in every build
FxShl1(bytes, a) == The({[v |-> ZWrap(ZAdd(x.v, x.v), bytes), o |-> x.o, z |-> x.z] : x \in {a}})

\* bits >> 1 (arithmetic)
FxShr1(a) == The({[v |-> ZHalfFloor(x.v), o |-> x.o, z |-> x.z] : x \in {a}})

FxLe(a, b) == ZLe(a.v, b.v)
FxLt(a, b) == ZLt(a.v, b.v)

\* from_num between fixed-point types: fractional bits the target lacks are
\* discarded (rounds down); a value the target cannot hold is an overflow
FxFromNum(bytes, frac, a, fracOfA) ==
    The({FxReduce(bytes,
                  IF frac >= fracOfA THEN ZMul(x.v, ZPow256(frac - fracOfA))
                  ELSE ZShrFloor(x.v, fracOfA - frac),
                  x, x) :
            x \in {a}})

\* T::one()
FxOne(frac) == Fx(ZPow256(frac))

(***************************************************************************)
(* cordic::sqrt, generic over the fixed-point type.                        *)
(*                                                                         *)
(* Each of the two while loops tests pow2 * pow2 against x and shifts pow2 *)
(* by one bit while the test holds.  A pow2 shifted 8 * bytes times is 0   *)
(* and stays 0, so a test that has held 8 * bytes + 1 times in a row holds *)
(* for ever: the loop does not end and the call never returns (hang).      *)
(* The loops are run as that many guarded steps, a step doing nothing once *)
(* the test has failed.                                                    *)
(***************************************************************************)
\* one turn of: while x <= pow2 * pow2 { pow2 = pow2 >> 1 }
sqrt_shrink_step(bytes, frac, x, st) ==
    IF st.done THEN st
    ELSE The({IF FxLe(x, sq) THEN [pow2 |-> FxJoin(FxShr1(st.pow2), sq), done |-> FALSE]
              ELSE [pow2 |-> FxJoin(st.pow2, sq), done |-> TRUE] :
                 sq \in {FxMul(bytes, frac, st.pow2, st.pow2)}})

\* one turn of: while pow2 * pow2 <= x { pow2 = pow2 << 1 }
sqrt_grow_step(bytes, frac, x, st) ==
    IF st.done THEN st
    ELSE The({IF FxLe(sq, x) THEN [pow2 |-> FxJoin(FxShl1(bytes, st.pow2), sq), done |-> FALSE]
              ELSE [pow2 |-> FxJoin(st.pow2, sq), done |-> TRUE] :
                 sq \in {FxMul(bytes, frac, st.pow2, st.pow2)}})

\* n turns of the loop that x selects (n >= 1), the first half then the rest
RECURSIVE sqrt_while(_, _, _, _, _, _)
sqrt_while(bytes, frac, x, shrink, st, n) ==
    IF n = 1
    THEN The({IF shrink THEN sqrt_shrink_step(bytes, frac, x, s)
              ELSE sqrt_grow_step(bytes, frac, x, s) : s \in {st}})
    ELSE The({sqrt_while(bytes, frac, x, shrink, half, n - (n \div 2)) :
                 half \in {sqrt_while(bytes, frac, x, shrink, st, n \div 2)}})

\* one turn of: for _ in 0..T::num_bits() { pow2 = pow2 >> 1;
\*     let next_result = result + pow2;
\*     if next_result * next_result <= x { result = next_result } }
\* When pow2 is 0 the turn leaves pow2 at 0 and result as it is, and the
\* product it forms is one an earlier turn formed.
sqrt_for_step(bytes, frac, x, st) ==
    IF st.pow2.v = ZZero THEN st
    ELSE The({The({The({IF FxLe(sq, x) THEN [pow2 |-> p, result |-> FxJoin(next_result, sq)]
                        ELSE [pow2 |-> p, result |-> FxJoin(st.result, sq)] :
                           sq \in {FxMul(bytes, frac, next_result, next_result)}}) :
                      next_result \in {FxAdd(bytes, st.result, p)}}) :
                 p \in {FxShr1(st.pow2)}})

\* n turns of the for loop (n >= 1), the first half then the rest
RECURSIVE sqrt_for(_, _, _, _, _)
sqrt_for(bytes, frac, x, st, n) ==
    IF n = 1 THEN The({sqrt_for_step(bytes, frac, x, s) : s \in {st}})
    ELSE The({sqrt_for(bytes, frac, x, half, n - (n \div 2)) :
                 half \in {sqrt_for(bytes, frac, x, st, n \div 2)}})

\* [hang, r]: r the root, carrying the marks of x and of the products formed
cordic_sqrt(bytes, frac, x) ==
    The({IF a.v = ZZero \/ a.v = ZPow256(frac) THEN [hang |-> FALSE, r |-> a]
         ELSE The({The({IF ~start.done THEN [hang |-> TRUE, r |-> start.pow2]
                        ELSE [hang |-> FALSE,
                              r |-> sqrt_for(bytes, frac, a,
                                             [pow2 |-> start.pow2,
                                              result |-> IF FxLt(a, one) THEN start.pow2
                                                         ELSE FxShr1(start.pow2)],
                                             8 * bytes).result] :
                           start \in {sqrt_while(bytes, frac, a, FxLt(a, one),
                                                 [pow2 |-> one, done |-> FALSE],
                                                 8 * bytes + 1)}}) :
                      one \in {FxJoin(FxOne(frac), a)}}) :
            a \in {x}})

(***************************************************************************)
(* What a call does: it returns a value, panics, or never returns.         *)
(***************************************************************************)
None == [kind |-> "none"]
Ok(val) == [kind |-> "ok", val |-> val]
Panic(msg) == [kind |-> "panic", msg |-> msg]
Hang == [kind |-> "hang"]

\* The outcome of a computation whose marks are those of fx: a division by
\* zero panics in every build; a result that did not fit panics in a debug
\* build and is wrapped in a release build; a loop of cordic::sqrt that
\* cannot end never returns.  The operands of this crate are I16F16 values,
\* for which nothing ahead of a division overflows, so z is met first.
Resolve(debug, fx, hang, val) ==
    The({IF m.z THEN Panic("attempt to divide by zero")
         ELSE IF debug /\ m.o THEN Panic("overflow")
         ELSE IF hang THEN Hang
         ELSE Ok(val) :
            m \in {fx}})

\* an I16F16 from its bits, and back
I16F16(bits) == Fx(ZFromInt(bits))
to_bits(fx) == ZToInt(fx.v)

\* fixed!(n) for an integer n: the bits of I16F16::from_num(n)
fixed(n) == n * 65536

Vertex(x, y) == [x |-> x, y |-> y]
Circle(x, y, r) == [x |-> x, y |-> y, r |-> r]

(***************************************************************************)
(* impl Vertex                                                             *)
(***************************************************************************)
\* I32F32::from_num(v) * I32F32::from_num(v)
abs_square(bits) ==
    The({FxMul(8, 4, w, w) : w \in {FxFromNum(8, 4, I16F16(bits), 2)}})

\* sqr, the operand cordic::sqrt receives in Vertex::abs (an I32F32)
abs_sqr(self) == FxAdd(8, abs_square(self.x), abs_square(self.y))

Vertex_abs(debug, self) ==
    The({The({Resolve(debug, narrowed, root.hang, to_bits(narrowed)) :
                 narrowed \in {FxFromNum(4, 2, root.r, 4)}}) :
            root \in {cordic_sqrt(8, 4, abs_sqr(self))}})

Vertex_mul(debug, self, rhs) ==
    The({Resolve(debug, FxJoin(xx, yy), FALSE, Vertex(to_bits(xx), to_bits(yy))) :
            xx \in {FxMul(4, 2, I16F16(self.x), I16F16(rhs))},
            yy \in {FxMul(4, 2, I16F16(self.y), I16F16(rhs))}})

\* Vertex_add with y: self.y - other.y
Vertex_add_skewed(debug, self, other) ==
    The({Resolve(debug, FxJoin(x, y), FALSE, Vertex(to_bits(x), to_bits(y))) :
            x \in {FxAdd(4, I16F16(self.x), I16F16(other.x))},
            y \in {FxSub(4, I16F16(self.y), I16F16(other.y))}})

Vertex_add(debug, self, other) ==
    The({Resolve(debug, FxJoin(x, y), FALSE, Vertex(to_bits(x), to_bits(y))) :
            x \in {FxAdd(4, I16F16(self.x), I16F16(other.x))},
            y \in {FxAdd(4, I16F16(self.y), I16F16(other.y))}})

Vertex_sub(debug, self, other) ==
    The({Resolve(debug, FxJoin(x, y), FALSE, Vertex(to_bits(x), to_bits(y))) :
            x \in {FxSub(4, I16F16(self.x), I16F16(other.x))},
            y \in {FxSub(4, I16F16(self.y), I16F16(other.y))}})

(***************************************************************************)
(* impl Circle                                                             *)
(***************************************************************************)
\* exp_filt_component with the two weights exchanged
exp_filt_component_swapped(old, new, alpha) ==
    FxAdd(4, FxMul(4, 2, I16F16(old), I16F16(alpha)),
             FxMul(4, 2, I16F16(new), FxSub(4, I16F16(fixed(1)), I16F16(alpha))))

\* one component: old * (fixed!(1.0) - alpha) + new * alpha
exp_filt_component(old, new, alpha) ==
    FxAdd(4, FxMul(4, 2, I16F16(old), FxSub(4, I16F16(fixed(1)), I16F16(alpha))),
             FxMul(4, 2, I16F16(new), I16F16(alpha)))

exp_filt(debug, self, rhs, alpha) ==
    The({Resolve(debug, FxJoin(FxJoin(xx, yy), rr), FALSE,
                 Circle(to_bits(xx), to_bits(yy), to_bits(rr))) :
            xx \in {exp_filt_component(self.x, rhs.x, alpha)},
            yy \in {exp_filt_component(self.y, rhs.y, alpha)},
            rr \in {exp_filt_component(self.r, rhs.r, alpha)}})

Circle_add(debug, self, other) ==
    The({Resolve(debug, FxJoin(x, y), FALSE, Circle(to_bits(x), to_bits(y), self.r)) :
            x \in {FxAdd(4, I16F16(self.x), I16F16(other.x))},
            y \in {FxAdd(4, I16F16(self.y), I16F16(other.y))}})

(***************************************************************************)
(* circle_from_three_vertex.  The let bindings of the function are         *)
(* computed in the order of the source, a group at a time, each group from *)
(* the values of the groups before it.                                     *)
(***************************************************************************)
\* I64F0::from_num of an I16F16: its integer part, rounded down
I64F0_from_num(bits) == FxFromNum(8, 0, I16F16(bits), 2)

\* bx1 .. by3
fit_coords(vertex) ==
    [bx1 |-> I64F0_from_num(vertex[1].x), bx2 |-> I64F0_from_num(vertex[2].x),
     bx3 |-> I64F0_from_num(vertex[3].x), by1 |-> I64F0_from_num(vertex[1].y),
     by2 |-> I64F0_from_num(vertex[2].y), by3 |-> I64F0_from_num(vertex[3].y)]

\* x12 .. y21
fit_diffs(b) ==
    [x12 |-> FxSub(8, b.bx1, b.bx2), x13 |-> FxSub(8, b.bx1, b.bx3),
     y12 |-> FxSub(8, b.by1, b.by2), y13 |-> FxSub(8, b.by1, b.by3),
     x31 |-> FxSub(8, b.bx3, b.bx1), x21 |-> FxSub(8, b.bx2, b.bx1),
     y31 |-> FxSub(8, b.by3, b.by1), y21 |-> FxSub(8, b.by2, b.by1)]

\* sx13 .. sy21
fit_squares(b) ==
    [sx13 |-> FxSub(8, FxMul(8, 0, b.bx1, b.bx1), FxMul(8, 0, b.bx3, b.bx3)),
     sy13 |-> FxSub(8, FxMul(8, 0, b.by1, b.by1), FxMul(8, 0, b.by3, b.by3)),
     sx21 |-> FxSub(8, FxMul(8, 0, b.bx2, b.bx2), FxMul(8, 0, b.bx1, b.bx1)),
     sy21 |-> FxSub(8, FxMul(8, 0, b.by2, b.by2), FxMul(8, 0, b.by1, b.by1))]

\* the dividend and the divisor of f, then those of g
fit_fractions(d, s) ==
    [f_num |-> FxAdd(8, FxAdd(8, FxAdd(8, FxMul(8, 0, s.sx13, d.x12),
                                          FxMul(8, 0, s.sy13, d.x12)),
                                 FxMul(8, 0, s.sx21, d.x13)),
                        FxMul(8, 0, s.sy21, d.x13)),
     f_den |-> FxMulInt(8, 2, FxSub(8, FxMul(8, 0, d.y31, d.x12), FxMul(8, 0, d.y21, d.x13))),
     g_num |-> FxAdd(8, FxAdd(8, FxAdd(8, FxMul(8, 0, s.sx13, d.y12),
                                          FxMul(8, 0, s.sy13, d.y12)),
                                 FxMul(8, 0, s.sx21, d.y13)),
                        FxMul(8, 0, s.sy21, d.y13)),
     g_den |-> FxMulInt(8, 2, FxSub(8, FxMul(8, 0, d.x31, d.y12), FxMul(8, 0, d.x21, d.y13)))]

\* fit_f_g with f and g exchanged
fit_f_g_swapped(q) ==
    [f |-> FxDiv(8, 0, q.g_num, q.g_den), g |-> FxDiv(8, 0, q.f_num, q.f_den)]

\* f and g
fit_f_g(q) ==
    [f |-> FxDiv(8, 0, q.f_num, q.f_den), g |-> FxDiv(8, 0, q.g_num, q.g_den)]

\* fit_c without the factor 2 of g * bx1
fit_c_slip(b, fg) ==
    FxSub(8, FxSub(8, FxSub(8, FxMul(8, 0, FxNeg(8, b.bx1), b.bx1),
                               FxMul(8, 0, b.by1, b.by1)),
                      FxMul(8, 0, fg.g, b.bx1)),
             FxMul(8, 0, FxMulInt(8, 2, fg.f), b.by1))

\* c = -bx1 * bx1 - by1 * by1 - 2 * g * bx1 - 2 * f * by1
fit_c(b, fg) ==
    FxSub(8, FxSub(8, FxSub(8, FxMul(8, 0, FxNeg(8, b.bx1), b.bx1),
                               FxMul(8, 0, b.by1, b.by1)),
                      FxMul(8, 0, FxMulInt(8, 2, fg.g), b.bx1)),
             FxMul(8, 0, FxMulInt(8, 2, fg.f), b.by1))

\* sqr_of_r = g * g + f * f - c
fit_sqr_of_r(fg, c) ==
    FxSub(8, FxAdd(8, FxMul(8, 0, fg.g, fg.g), FxMul(8, 0, fg.f, fg.f)), c)

\* x, y and r of the Circle the function builds, r with the mark `hang' of
\* a cordic::sqrt(sqr_of_r) that never returns
fit_fields(fg, sqr_of_r) ==
    The({The({[x |-> x, y |-> y, hang |-> root.hang, r |-> FxFromNum(4, 2, root.r, 0)] :
                 root \in {cordic_sqrt(8, 0, FxJoin(sqr_of_r, FxJoin(x, y)))}}) :
            x \in {FxFromNum(4, 2, FxNeg(8, fg.g), 0)},
            y \in {FxFromNum(4, 2, FxNeg(8, fg.f), 0)}})

\* the let bindings of the function and the fields of its Circle, by their
\* names, for a buffer of three
fit_terms(vertex) ==
    The({The({The({The({The({The({The({The({
        [bx1 |-> b.bx1, by1 |-> b.by1, bx2 |-> b.bx2, by2 |-> b.by2,
         bx3 |-> b.bx3, by3 |-> b.by3,
         sx13 |-> s.sx13, sy13 |-> s.sy13, sx21 |-> s.sx21, sy21 |-> s.sy21,
         f_num |-> q.f_num, f_den |-> q.f_den, f |-> fg.f,
         g_num |-> q.g_num, g_den |-> q.g_den, g |-> fg.g,
         c |-> c, sqr_of_r |-> sqr_of_r,
         x |-> n.x, y |-> n.y, r |-> n.r, hang |-> n.hang] :
            n \in {fit_fields(fg, sqr_of_r)}}) :
            sqr_of_r \in {fit_sqr_of_r(fg, c)}}) :
            c \in {fit_c(b, fg)}}) :
            fg \in {fit_f_g(q)}}) :
            q \in {fit_fractions(d, s)}}) :
            s \in {fit_squares(b)}}) :
            d \in {fit_diffs(b)}}) :
            b \in {fit_coords(vertex)}})

\* what the call does, from the terms it computed
fit_circle(debug, t) ==
    Resolve(debug, FxJoin(FxJoin(t.x, t.y), t.r), t.hang,
            Circle(to_bits(t.x), to_bits(t.y), to_bits(t.r)))

\* the terms of a call and its outcome; vertex[2] of a buffer with fewer
\* than three elements is out of bounds
fit_trace(debug, vertex) ==
    IF Len(vertex) < 3 THEN [terms |-> None, circ |-> Panic("index out of bounds")]
    ELSE The({[terms |-> t, circ |-> fit_circle(debug, t)] : t \in {fit_terms(vertex)}})

circle_from_three_vertex(debug, vertex) == fit_trace(debug, vertex).circ

\* lhs + rhs of two operands that are calls: a call that does not return
\* a value is the outcome of the sum, the left one first
add_after(debug, p, q) ==
    IF p.kind # "ok" THEN p ELSE IF q.kind # "ok" THEN q ELSE Vertex_add(debug, p.val, q.val)

\* vertex[i] + t for each vertex of a buffer
moved(debug, vertex, t) == [i \in 1..Len(vertex) |-> Vertex_add(debug, vertex[i], t)]

(***************************************************************************)
(* The callers, as the tests of the crate drive the functions.             *)
(*   debug      the build: TRUE with overflow checks and debug assertions  *)
(*   buffer     the heapless::Vec<Vertex, 3> the samples are pushed into   *)
(*   circ       the outcome of circle_from_three_vertex(&buffer)           *)
(*   terms      the let bindings of that call                              *)
(*   expected   the circle of the buffer before it was moved, plus the     *)
(*              vertex it was moved by                                     *)
(*   truth      the circle the samples are taken from                      *)
(*   circ_old, circ_new, alpha, circ_filt, steps                           *)
(*              circ_filt is circ_old after `steps' calls of               *)
(*              exp_filt(circ_new, alpha)                                  *)
(*   a, b, c    three vertices; sums holds a + b, b + a, (a + b) + c and   *)
(*              a + (b + c); magnitude holds a.abs()                       *)
(***************************************************************************)
VARIABLES debug, buffer, circ, terms, expected, truth,
          circ_old, circ_new, alpha, circ_filt, steps,
          a, b, c, sums, magnitude

fitVars == <<buffer, circ, terms, expected, truth>>
filterVars == <<circ_old, circ_new, alpha, circ_filt, steps>>
vertexVars == <<a, b, c, sums, magnitude>>
vars == <<debug, fitVars, filterVars, vertexVars>>

\* the bounds of the inputs
MaxCoord == 1
MaxRadius == 5
MaxSteps == 3

\* I16F16::MAX and I16F16::MIN, in bits
MaxBits == 2147483647
MinBits == -2147483647 - 1
\* fixed!(0.5)
Half == 32768

\* the states before anything is called
NoFit == buffer = <<>> /\ circ = None /\ terms = None /\ expected = None /\ truth = None
NoFilter ==
    circ_old = None /\ circ_new = None /\ alpha = 0 /\ circ_filt = None /\ steps = 0
NoVertex == a = None /\ b = None /\ c = None /\ sums = None /\ magnitude = None

(***************************************************************************)
(* circle_from_three_vertex on a buffer filled by push.                    *)
(***************************************************************************)
\* let _ = buffer.push(v): a buffer of three refuses the push and stays as
\* it is
Push(v) ==
    /\ Len(buffer) < 3
    /\ circ = None
    /\ buffer' = Append(buffer, v)
    /\ UNCHANGED <<debug, circ, terms, expected, truth, filterVars, vertexVars>>

\* let circ = circle_from_three_vertex(&buffer)
Fit ==
    /\ circ = None
    /\ \E tr \in {fit_trace(debug, buffer)} : circ' = tr.circ /\ terms' = tr.terms
    /\ UNCHANGED <<debug, buffer, expected, truth, filterVars, vertexVars>>

\* the fit of the buffer moved by t, next to circ + t
Translate(t) ==
    /\ Len(buffer) = 3
    /\ circ # None /\ circ.kind = "ok"
    /\ expected = None
    /\ \E m \in {moved(debug, buffer, t)} :
          /\ \A i \in 1..3 : m[i].kind = "ok"
          /\ buffer' = [i \in 1..3 |-> m[i].val]
    /\ expected' = Circle_add(debug, circ.val, t)
    /\ \E tr \in {fit_trace(debug, buffer')} : circ' = tr.circ /\ terms' = tr.terms
    /\ UNCHANGED <<debug, truth, filterVars, vertexVars>>

\* the samples: the points of a grid of step 0.5
GridCoords == {k * Half : k \in 0..(2 * MaxCoord)}
GridVertices == {Vertex(x, y) : x \in GridCoords, y \in GridCoords}
Translations == {Vertex(fixed(-1), fixed(-1)), Vertex(Half, 0), Vertex(fixed(2), fixed(1))}

InitFit == debug \in BOOLEAN /\ NoFit /\ NoFilter /\ NoVertex
NextFit ==
    \/ \E v \in GridVertices : Push(v)
    \/ Fit
    \/ \E t \in Translations : Translate(t)
SpecFit == InitFit /\ [][NextFit]_vars

\* the samples: vertices up to the bounds of I16F16
RangeVertices ==
    {Vertex(0, 0), Vertex(fixed(300), fixed(1)), Vertex(fixed(600), 0),
     Vertex(MinBits, MinBits), Vertex(fixed(-1), fixed(-2)),
     Vertex(fixed(32767), fixed(32765)), Vertex(fixed(1), fixed(1)),
     Vertex(fixed(2), fixed(2))}

NextRange ==
    \/ \E v \in RangeVertices : Push(v)
    \/ Fit
SpecRange == InitFit /\ [][NextRange]_vars

\* the samples: the points of integer coordinates of a circle whose center
\* and radius are integers
LatticeCircles ==
    {Circle(fixed(0), fixed(0), fixed(1)), Circle(fixed(2), fixed(2), fixed(3)),
     Circle(fixed(2), fixed(2), fixed(1)), Circle(fixed(-3), fixed(2), fixed(MaxRadius))}
LatticePoints(circle) ==
    The({{Vertex(circle.x + fixed(dx), circle.y + fixed(dy)) :
             <<dx, dy>> \in {d \in (-n..n) \X (-n..n) : d[1] * d[1] + d[2] * d[2] = n * n}} :
            n \in {circle.r \div 65536}})

InitLattice ==
    /\ debug \in BOOLEAN
    /\ buffer = <<>> /\ circ = None /\ terms = None /\ expected = None
    /\ truth \in LatticeCircles
    /\ NoFilter /\ NoVertex
NextLattice ==
    \/ \E v \in LatticePoints(truth) : Push(v)
    \/ Fit
SpecLattice == InitLattice /\ [][NextLattice]_vars

(***************************************************************************)
(* Circle::exp_filt, called again and again with the same target.          *)
(***************************************************************************)
\* circ_filt = circ_filt.exp_filt(circ_new, alpha)
Blend ==
    /\ circ_filt # None /\ circ_filt.kind = "ok"
    /\ steps < MaxSteps
    /\ circ_filt' = exp_filt(debug, circ_filt.val, circ_new, alpha)
    /\ steps' = steps + 1
    /\ UNCHANGED <<debug, circ_old, circ_new, alpha, fitVars, vertexVars>>

FilterValues == {MinBits, -65537, 1, fixed(2000), MaxBits}
FilterCircles == {Circle(0, 0, 0)} \cup {Circle(v, w, v) : v \in FilterValues, w \in FilterValues}
Alphas == {0, Half, fixed(1)}

InitFilter ==
    /\ debug \in BOOLEAN
    /\ circ_old \in FilterCircles
    /\ circ_new \in FilterCircles
    /\ alpha \in Alphas
    /\ circ_filt = Ok(circ_old)
    /\ steps = 0
    /\ NoFit /\ NoVertex
NextFilter == Blend
SpecFilter == InitFilter /\ [][NextFilter]_vars

(***************************************************************************)
(* impl Add for Vertex and Vertex::abs.                                    *)
(***************************************************************************)
\* a + b, b + a, (a + b) + c and a + (b + c)
Sum ==
    /\ sums = None
    /\ sums' = [ab |-> Vertex_add(debug, a, b),
                ba |-> Vertex_add(debug, b, a),
                left |-> add_after(debug, Vertex_add(debug, a, b), Ok(c)),
                right |-> add_after(debug, Ok(a), Vertex_add(debug, b, c))]
    /\ UNCHANGED <<debug, a, b, c, magnitude, fitVars, filterVars>>

AddCoords == {MinBits, -1, 1, fixed(1), MaxBits}
AddVertices == {Vertex(x, y) : x \in AddCoords, y \in {0, 1}}

InitAdd ==
    /\ debug \in BOOLEAN
    /\ a \in AddVertices /\ b \in AddVertices /\ c \in AddVertices
    /\ sums = None /\ magnitude = None
    /\ NoFit /\ NoFilter
NextAdd == Sum
SpecAdd == InitAdd /\ [][NextAdd]_vars

\* a.abs()
Abs ==
    /\ magnitude = None
    /\ magnitude' = Vertex_abs(debug, a)
    /\ UNCHANGED <<debug, a, b, c, sums, fitVars, filterVars>>

AbsCoords == {MinBits, fixed(-4), -1, 0, fixed(3), fixed(23170), MaxBits}
AbsVertices == {Vertex(x, y) : x \in AbsCoords, y \in AbsCoords}

InitAbs ==
    /\ debug \in BOOLEAN
    /\ a \in AbsVertices /\ b = None /\ c = None
    /\ sums = None /\ magnitude = None
    /\ NoFit /\ NoFilter
NextAbs == Abs
SpecAbs == InitAbs /\ [][NextAbs]_vars

(***************************************************************************)
(* The properties.  Geometry is stated on the bits of the coordinates (one *)
(* unit is 2^-16), in integers of any size.                                *)
(***************************************************************************)
\* circle_from_three_vertex(&buffer) has been called on three samples
Fitted == circ # None /\ Len(buffer) = 3

\* target - now, of two numbers given by their bits
Gap(target, now) == ZSub(ZFromInt(target), ZFromInt(now))

\* (x2 - x1) * (y3 - y1) - (x3 - x1) * (y2 - y1)
Cross(vertex) ==
    ZSub(ZMul(Gap(vertex[2].x, vertex[1].x), Gap(vertex[3].y, vertex[1].y)),
         ZMul(Gap(vertex[3].x, vertex[1].x), Gap(vertex[2].y, vertex[1].y)))

\* the three points lie on one line (two equal points included)
Collinear(vertex) == Cross(vertex) = ZZero

\* the square of the distance from the center of a circle to a point
DistSq(circle, v) ==
    ZAdd(ZMul(Gap(circle.x, v.x), Gap(circle.x, v.x)),
         ZMul(Gap(circle.y, v.y), Gap(circle.y, v.y)))

\* r is within eps of the distance whose square is d2
Near(d2, r, eps) ==
    /\ r >= 0
    /\ ZLe(d2, ZMul(Gap(r, -eps), Gap(r, -eps)))
    /\ r <= eps \/ ZLe(ZMul(Gap(r, eps), Gap(r, eps)), d2)

\* C1, as claimed: the fit of three points that are not collinear returns a
\* circle whose center is at the distance r, within 2^-8, from each of them.
C1_UniqueCircle ==
    (Fitted /\ ~Collinear(buffer)) =>
        /\ circ.kind = "ok"
        /\ \A i \in 1..3 : Near(DistSq(circ.val, buffer[i]), circ.val.r, fixed(1) \div 256)

\* C1: the fit of (0,0), (1,0), (0,1), whose circle has center (0.5, 0.5),
\* has returned Circle(0, 0, 0).
C1_Reached ==
    /\ buffer = <<Vertex(0, 0), Vertex(fixed(1), 0), Vertex(0, fixed(1))>>
    /\ circ = Ok(Circle(0, 0, 0))

\* C2: three points of integer coordinates, not collinear, taken in any
\* order from a circle of integer center and radius fit to exactly that
\* circle.
C2_LatticeExact == (Fitted /\ ~Collinear(buffer)) => circ = Ok(truth)

\* C2: (5,2), (2,5), (-1,2) have been fitted to Circle(2, 2, 3).
C2_Reached ==
    /\ buffer = <<Vertex(fixed(5), fixed(2)), Vertex(fixed(2), fixed(5)),
                  Vertex(fixed(-1), fixed(2))>>
    /\ circ = Ok(Circle(fixed(2), fixed(2), fixed(3)))

\* C3, as claimed: the fit of three collinear points ends in an explicit
\* collinear-input error: it neither divides by zero nor returns a circle.
C3_CollinearError ==
    (Fitted /\ Collinear(buffer)) =>
        /\ circ.kind = "error"
        /\ circ # Panic("attempt to divide by zero")
        /\ circ.kind # "ok"

\* C3: the fit of (0,0), (1,1), (2,2) has panicked on the division.
C3_Reached ==
    /\ buffer = <<Vertex(0, 0), Vertex(fixed(1), fixed(1)), Vertex(fixed(2), fixed(2))>>
    /\ circ = Panic("attempt to divide by zero")

\* C4, as claimed: the fit of the points moved by t is the fit of the
\* points, moved by t.
C4_TranslationInvariant == expected # None => circ = expected

\* C4: (0,0), (1,0), (0,1), fitted to Circle(0, 0, 0), have been moved by
\* (-1, -1) and fitted again, to something else than Circle(-1, -1, 0).
C4_Reached ==
    /\ buffer = <<Vertex(fixed(-1), fixed(-1)), Vertex(0, fixed(-1)), Vertex(fixed(-1), 0)>>
    /\ expected = Ok(Circle(fixed(-1), fixed(-1), 0))
    /\ circ # expected

\* C5, as claimed: in the fit of three points that are not collinear no
\* intermediate leaves the 64 bits and -g, -f and the radius fit I16F16.
C5_NoOverflow ==
    (Fitted /\ ~Collinear(buffer)) => ~(terms.x.o \/ terms.y.o \/ terms.r.o)

\* C5: in the fit of (0,0), (300,1), (600,0) every intermediate fitted the
\* 64 bits and -f did not fit I16F16.
C5_Reached ==
    /\ buffer = <<Vertex(0, 0), Vertex(fixed(300), fixed(1)), Vertex(fixed(600), 0)>>
    /\ circ # None
    /\ ~terms.sqr_of_r.o /\ ~terms.x.o /\ terms.y.o

\* C6: exp_filt with alpha = 0 returns the old circle and with alpha = 1
\* the new one, in x, y and r.
C6_Endpoints ==
    steps >= 1 =>
        /\ alpha = 0 => circ_filt = Ok(circ_old)
        /\ alpha = fixed(1) => circ_filt = Ok(circ_new)

\* C6: a circle at the bounds of I16F16 has been blended with alpha = 1
\* into another one, and is that one.
C6_Reached ==
    /\ steps = 1 /\ alpha = fixed(1)
    /\ circ_old = Circle(MinBits, MaxBits, MinBits)
    /\ circ_new = Circle(1, -65537, 1)
    /\ circ_filt = Ok(circ_new)

\* 2^k * (target - now) - (target - start)
GapExcess(start, target, now, k) ==
    ZSub(ZMul(ZFromInt(2 ^ k), Gap(target, now)), Gap(target, start))

\* x, y and r
Components == {"x", "y", "r"}

\* C7, as claimed: with alpha = 0.5 the gap to the target after k steps is
\* the gap at the start divided by 2^k.
C7_GapHalved ==
    (alpha = Half /\ circ_filt # None) =>
        /\ circ_filt.kind = "ok"
        /\ \A f \in Components :
              GapExcess(circ_old[f], circ_new[f], circ_filt.val[f], steps) = ZZero

\* C7, as the code has it: each product rounds down to a multiple of 2^-16,
\* so a step leaves twice the new gap between the old gap and the old gap
\* plus 2 units; after k steps 2^k times the gap exceeds the gap at the
\* start by 0 to 2 * (2^k - 1) units, and by 0 when start and target are
\* multiples of 2^k units (as 0 and 2000 are).
C7_GapHalvedWithinRounding ==
    (alpha = Half /\ circ_filt # None) =>
        /\ circ_filt.kind = "ok"
        /\ \A f \in Components :
              /\ ZLe(ZZero, GapExcess(circ_old[f], circ_new[f], circ_filt.val[f], steps))
              /\ ZLe(GapExcess(circ_old[f], circ_new[f], circ_filt.val[f], steps),
                     ZFromInt(2 * (2 ^ steps - 1)))
              /\ (circ_old[f] % (2 ^ steps) = 0 /\ circ_new[f] % (2 ^ steps) = 0) =>
                    GapExcess(circ_old[f], circ_new[f], circ_filt.val[f], steps) = ZZero

\* C7: Circle(0,0,0) blended twice with alpha = 0.5 toward
\* Circle(2000,2000,2000) is Circle(1500,1500,1500).
C7_Reached ==
    /\ alpha = Half /\ steps = 2
    /\ circ_old = Circle(0, 0, 0)
    /\ circ_new = Circle(fixed(2000), fixed(2000), fixed(2000))
    /\ circ_filt = Ok(Circle(fixed(1500), fixed(1500), fixed(1500)))

\* C8, as claimed: a + b is b + a and (a + b) + c is a + (b + c), the two
\* sides with the same outcome.
C8_CommutativeAssociative ==
    sums # None => sums.ab = sums.ba /\ sums.left = sums.right

\* C8, as the code has it: a + b and b + a have the same outcome; (a + b) + c
\* and a + (b + c) are the same vertex when both return one, which they do
\* in a build without overflow checks; with overflow checks one side can
\* panic on a partial sum that the other side does not form.
C8_AssociativeWhenReturned ==
    sums # None =>
        /\ sums.ab = sums.ba
        /\ (sums.left.kind = "ok" /\ sums.right.kind = "ok") => sums.left = sums.right
        /\ ~debug => sums.left.kind = "ok" /\ sums.left = sums.right

\* C8: with overflow checks, (MAX + 2^-16) - 2^-16 has panicked on its first
\* sum and MAX + (2^-16 - 2^-16) has returned MAX.
C8_Reached ==
    /\ debug
    /\ a = Vertex(MaxBits, 0) /\ b = Vertex(1, 0) /\ c = Vertex(-1, 0)
    /\ sums # None
    /\ sums.left = Panic("overflow")
    /\ sums.right = Ok(a)

\* C9, as claimed: in Vertex::abs x * x + y * y fits I32F32 and the call
\* returns the magnitude.
C9_AbsNoOverflow ==
    magnitude # None => ~abs_sqr(a).o /\ magnitude.kind = "ok"

\* C9: abs of (-32768, -32768) has panicked on an overflow.
C9_Reached ==
    /\ a = Vertex(MinBits, MinBits)
    /\ magnitude = Panic("overflow")

\* (bx1 + g)^2 + (by1 + f)^2
SqrDistToFirst(t) ==
    ZAdd(ZMul(ZAdd(t.bx1.v, t.g.v), ZAdd(t.bx1.v, t.g.v)),
         ZMul(ZAdd(t.by1.v, t.f.v), ZAdd(t.by1.v, t.f.v)))

\* C10: when no divisor is zero and nothing overflowed, sqr_of_r is
\* (bx1 + g)^2 + (by1 + f)^2, and so is not negative.
C10_SqrOfRNotNegative ==
    (Fitted /\ ~terms.sqr_of_r.z /\ ~terms.sqr_of_r.o) =>
        /\ terms.sqr_of_r.v = SqrDistToFirst(terms)
        /\ ZLe(ZZero, terms.sqr_of_r.v)

\* C10: a fit without overflow whose division for f had a remainder, on a
\* first point other than the origin, with sqr_of_r above zero.
C10_Reached ==
    /\ Fitted /\ ~terms.sqr_of_r.z /\ ~terms.sqr_of_r.o
    /\ ZMul(terms.f.v, terms.f_den.v) # terms.f_num.v
    /\ buffer[1] # Vertex(0, 0)
    /\ ZLt(ZZero, terms.sqr_of_r.v)

=============================================================================
